---- MODULE Spec2Model ----
(***************************************************************************)
(* gf.sim.SpatialEntity and gf.sim.SpatialEntity.State                     *)
(* (src/src/gf/sim/spatialentity.js): the replicated spatial state of an   *)
(* entity, its lazily recomputed transform / bounding-sphere cache and the *)
(* ancestor walk of getTransform.                                          *)
(*                                                                         *)
(* Numbers are small integers, all of them exactly representable in the    *)
(* Float32 arrays the code stores them in, so Float32 rounding never       *)
(* changes a value.  Vectors are tuples; a 4x4 matrix is a 16-tuple in     *)
(* the column-major layout of goog.vec.Mat4 (element (row, col) of the     *)
(* code's mat[4*col + row] is index 4*col + row + 1 here).                 *)
(***************************************************************************)
EXTENDS Integers, Sequences, FiniteSets, TLC

VARIABLES
  position_,        \* State.position_        of every spatial entity
  rotation_,        \* State.rotation_
  scale_,           \* State.scale_
  boundingRadius_,  \* State.boundingRadius_
  dirtyBits,        \* ordinals marked by setVariableDirty, per entity
  transformDirty_,  \* SpatialEntity.transformDirty_
  boundingSphere_,  \* SpatialEntity.boundingSphere_ (XYZR)
  transform_,       \* SpatialEntity.transform_
  events,           \* what the running (or last) call did, in order
  pc,               \* "idle", or "walk" inside the loop of getTransform
  self,             \* getTransform: this
  untilParent,      \* getTransform: untilParent
  current,          \* getTransform: current
  result,           \* getTransform: result
  walkIter,         \* getTransform: loop iterations done by the running call
  variableList,     \* the list State.declareVariables was given
  last              \* the last call that returned: [op, e, arg, ret]

vars == <<position_, rotation_, scale_, boundingRadius_, dirtyBits,
          transformDirty_, boundingSphere_, transform_, events,
          pc, self, untilParent, current, result, walkIter, variableList,
          last>>

-----------------------------------------------------------------------------
(* The scene the entities live in.  Parent assignment is not done by this  *)
(* file; the hierarchy is fixed.  A is a spatial root whose class exposes  *)
(* childTransformed, B is a spatial child of A, P is a non-spatial child   *)
(* of A (no childTransformed), C is a spatial child of P.                  *)

null == "null"

SpatialEntities == {"A", "B", "C"}

Entities == SpatialEntities \cup {"P"}

\* entity.getParent()
getParent(e) ==
  CASE e = "A" -> null
    [] e = "B" -> "A"
    [] e = "P" -> "A"
    [] e = "C" -> "P"

\* parent.childTransformed is defined
hasChildTransformed(p) == p = "A"

\* current instanceof gf.sim.SpatialEntity
instanceofSpatialEntity(e) == e \in SpatialEntities

RECURSIVE Ancestors(_)
Ancestors(e) ==
  IF getParent(e) = null THEN {}
  ELSE {getParent(e)} \cup Ancestors(getParent(e))

-----------------------------------------------------------------------------
(* Bounds and the argument values the calls are made with.                 *)

\* setBoundingRadius is called with 0 .. MaxRadius
MaxRadius == 2

\* loop iterations of getTransform followed before the model stops
\* following a call (more than the depth of any chain of the scene)
MaxWalk == 3

Vec3Zero == <<0, 0, 0>>

QuatZero == <<0, 0, 0, 0>>

Positions == {Vec3Zero, <<5, 0, 0>>}

\* the identity quaternion and the half turn about Z
Rotations == {QuatZero, <<0, 0, 0, 1>>, <<0, 0, 1, 0>>}

Scales == {Vec3Zero, <<2, 1, 1>>, <<1, 3, 2>>}

Radii == 0 .. MaxRadius

-----------------------------------------------------------------------------
(* goog.vec / gf.vec arithmetic used by the file.                          *)

\* goog.vec.Vec3.equals: component-wise ==
Vec3Equals(v0, v1) == v0[1] = v1[1] /\ v0[2] = v1[2] /\ v0[3] = v1[3]

\* goog.vec.Vec4.equals
Vec4Equals(v0, v1) ==
  v0[1] = v1[1] /\ v0[2] = v1[2] /\ v0[3] = v1[3] /\ v0[4] = v1[4]

\* Math.max(a, b)
Max(a, b) == IF a >= b THEN a ELSE b

\* goog.vec.Mat4.createFloat32(): sixteen zeros
Mat4Zero == [k \in 1 .. 16 |-> 0]

\* goog.vec.Vec4.createFloat32()
Vec4Zero == <<0, 0, 0, 0>>

\* goog.vec.Quaternion.toRotationMatrix4(quat, mat)
toRotationMatrix4(q) ==
  LET x == q[1]  y == q[2]  z == q[3]  w == q[4]
      x2 == 2 * x  y2 == 2 * y  z2 == 2 * z
      wx == x2 * w  wy == y2 * w  wz == z2 * w
      xx == x2 * x  xy == y2 * x  xz == z2 * x
      yy == y2 * y  yz == z2 * y  zz == z2 * z
  IN << 1 - (yy + zz), xy + wz, xz - wy, 0,
        xy - wz, 1 - (xx + zz), yz + wx, 0,
        xz + wy, yz - wx, 1 - (xx + yy), 0,
        0, 0, 0, 1 >>

\* gf.vec.Mat4.multScalePost(mat, x, y, z, result): result = mat * Scale,
\* the first three columns multiplied by x, y and z
multScalePost(m, x, y, z) ==
  << m[1] * x, m[2] * x, m[3] * x, m[4] * x,
     m[5] * y, m[6] * y, m[7] * y, m[8] * y,
     m[9] * z, m[10] * z, m[11] * z, m[12] * z,
     m[13], m[14], m[15], m[16] >>

\* gf.vec.Mat4.multTranslationPre(x, y, z, mat, result):
\* result = Translate * mat, (x, y, z) times the last row added to the
\* first three rows
multTranslationPre(x, y, z, m) ==
  << m[1] + x * m[4], m[2] + y * m[4], m[3] + z * m[4], m[4],
     m[5] + x * m[8], m[6] + y * m[8], m[7] + z * m[8], m[8],
     m[9] + x * m[12], m[10] + y * m[12], m[11] + z * m[12], m[12],
     m[13] + x * m[16], m[14] + y * m[16], m[15] + z * m[16], m[16] >>

\* goog.vec.Mat4.multMat(mat0, mat1, result): result = mat0 * mat1
multMat(m0, m1) ==
  [k \in 1 .. 16 |->
     LET r == (k - 1) % 4
         c == (k - 1) \div 4
     IN  m0[r + 1] * m1[4 * c + 1] + m0[4 + r + 1] * m1[4 * c + 2]
         + m0[8 + r + 1] * m1[4 * c + 3] + m0[12 + r + 1] * m1[4 * c + 4]]

-----------------------------------------------------------------------------
(* The program state as one record, so that a call made from inside        *)
(* another call (updateTransform from getBoundingSphere, a setter from a   *)
(* childTransformed callback) is the composition of their effects.         *)

Cur ==
  [position_ |-> position_, rotation_ |-> rotation_, scale_ |-> scale_,
   boundingRadius_ |-> boundingRadius_, dirtyBits |-> dirtyBits,
   transformDirty_ |-> transformDirty_, boundingSphere_ |-> boundingSphere_,
   transform_ |-> transform_, events |-> events]

\* the state a top-level call starts from: it has done nothing yet
Begin == [Cur EXCEPT !.events = <<>>]

Install(S) ==
  /\ position_' = S.position_
  /\ rotation_' = S.rotation_
  /\ scale_' = S.scale_
  /\ boundingRadius_' = S.boundingRadius_
  /\ dirtyBits' = S.dirtyBits
  /\ transformDirty_' = S.transformDirty_
  /\ boundingSphere_' = S.boundingSphere_
  /\ transform_' = S.transform_
  /\ events' = S.events

\* the value of S, computed once
Once(S) == {S}

-----------------------------------------------------------------------------
(* gf.sim.SpatialEntity.State                                              *)

\* variableTable.getOrdinal(tags_.position) and the three after it: the
\* ordinals follow the order of declareVariables
positionOrdinal_ == 1

rotationOrdinal_ == 2

scaleOrdinal_ == 3

boundingRadiusOrdinal_ == 4

Ordinals ==
  {positionOrdinal_, rotationOrdinal_, scaleOrdinal_, boundingRadiusOrdinal_}

\* gf.sim.EntityState.prototype.setVariableDirty(ordinal)
setVariableDirty(S, e, ordinal) ==
  [S EXCEPT !.dirtyBits[e] = @ \cup {ordinal}]

\* invalidateTransform that clears the flag
invalidateTransform_clears(S, e) == [S EXCEPT !.transformDirty_[e] = FALSE]

\* gf.sim.SpatialEntity.prototype.invalidateTransform
invalidateTransform(S, e) == [S EXCEPT !.transformDirty_[e] = TRUE]

\* postNetworkUpdate left as the empty hook of the base class
postNetworkUpdate_empty(S, e) == S

\* gf.sim.SpatialEntity.prototype.postNetworkUpdate
postNetworkUpdate(S, e) == [S EXCEPT !.transformDirty_[e] = TRUE]

getPosition(S, e) == S.position_[e]

getRotation(S, e) == S.rotation_[e]

getScale(S, e) == S.scale_[e]

getBoundingRadius(S, e) == S.boundingRadius_[e]

setPosition(S, e, value) ==
  IF ~Vec3Equals(S.position_[e], value)
  THEN invalidateTransform(
         setVariableDirty([S EXCEPT !.position_[e] = value],
                          e, positionOrdinal_), e)
  ELSE S

setRotation(S, e, value) ==
  IF ~Vec4Equals(S.rotation_[e], value)
  THEN invalidateTransform(
         setVariableDirty([S EXCEPT !.rotation_[e] = value],
                          e, rotationOrdinal_), e)
  ELSE S

\* setScale that forgets this.entity.invalidateTransform()
setScale_noInvalidate(S, e, value) ==
  IF ~Vec3Equals(S.scale_[e], value)
  THEN setVariableDirty([S EXCEPT !.scale_[e] = value], e, scaleOrdinal_)
  ELSE S

setScale(S, e, value) ==
  IF ~Vec3Equals(S.scale_[e], value)
  THEN invalidateTransform(
         setVariableDirty([S EXCEPT !.scale_[e] = value],
                          e, scaleOrdinal_), e)
  ELSE S

\* !this.boundingRadius_ converted to a number by the != that follows it:
\* 1 when the radius is 0, else 0
notAsNumber(x) == IF x = 0 THEN 1 ELSE 0

\* the condition of setBoundingRadius: (!this.boundingRadius_) != value
radiusDiffers(held, value) == notAsNumber(held) # value

setBoundingRadius(S, e, value) ==
  IF radiusDiffers(S.boundingRadius_[e], value)
  THEN invalidateTransform(
         setVariableDirty([S EXCEPT !.boundingRadius_[e] = value],
                          e, boundingRadiusOrdinal_), e)
  ELSE S

-----------------------------------------------------------------------------
(* gf.sim.SpatialEntity.State.declareVariables (lines 358-381).  A variable *)
(* list is a sequence of descriptors.                                      *)

MaxList == 2

\* gf.sim.VariableFlag.UPDATED_FREQUENTLY | gf.sim.VariableFlag.INTERPOLATED
FrequentInterpolated == {"UPDATED_FREQUENTLY", "INTERPOLATED"}

\* new gf.sim.Variable.Vec3 / Quaternion / Float (tag, flags, getter, setter
\* and, for a quaternion, normalized)
Variable(type, tag, flags, getter, setter, normalized) ==
  [type |-> type, tag |-> tag, flags |-> flags, getter |-> getter,
   setter |-> setter, normalized |-> normalized]

\* descriptors of other classes: the ones a list can hold before the call
\* and the ones the base declaration adds
OtherVariables ==
  {Variable("Float", t, {}, "get", "set", FALSE) : t \in {"u", "v", "w"}}

RECURSIVE ListsUpTo(_)
\* the lists of at most n descriptors of other classes
ListsUpTo(n) ==
  IF n = 0 THEN {<<>>}
  ELSE ListsUpTo(n - 1) \cup
       {Append(l, d) : l \in {k \in ListsUpTo(n - 1) : Len(k) = n - 1},
                       d \in OtherVariables}

VariableLists == ListsUpTo(MaxList)

\* gf.sim.EntityState.declareVariables(variableList): the base class adds
\* its own descriptors, base, at the end of the list
EntityState_declareVariables(list, base) == list \o base

\* declareVariables pushing rotation and scale in the other order
declareVariables_scaleFirst(list, base) ==
  LET l0 == EntityState_declareVariables(list, base)
      l1 == Append(l0, Variable("Vec3", "position", FrequentInterpolated,
                                "getPosition", "setPosition", FALSE))
      l2 == Append(l1, Variable("Vec3", "scale", FrequentInterpolated,
                                "getScale", "setScale", FALSE))
      l3 == Append(l2, Variable("Quaternion", "rotation",
                                FrequentInterpolated,
                                "getRotation", "setRotation", TRUE))
  IN  Append(l3, Variable("Float", "boundingRadius", FrequentInterpolated,
                          "getBoundingRadius", "setBoundingRadius", FALSE))

\* the list after declareVariables(list); base is what the base
\* declaration of line 359 adds
declareVariables(list, base) ==
  LET l0 == EntityState_declareVariables(list, base)
      l1 == Append(l0, Variable("Vec3", "position", FrequentInterpolated,
                                "getPosition", "setPosition", FALSE))
      l2 == Append(l1, Variable("Quaternion", "rotation",
                                FrequentInterpolated,
                                "getRotation", "setRotation", TRUE))
      l3 == Append(l2, Variable("Vec3", "scale", FrequentInterpolated,
                                "getScale", "setScale", FALSE))
  IN  Append(l3, Variable("Float", "boundingRadius", FrequentInterpolated,
                          "getBoundingRadius", "setBoundingRadius", FALSE))

-----------------------------------------------------------------------------
(* gf.sim.SpatialEntity                                                    *)

\* a radius scaled by the X axis alone
sphereOf_firstAxis(position, scale, radius) ==
  <<position[1], position[2], position[3], radius * scale[1]>>

\* the bounding sphere updateTransform computes
sphereOf(position, scale, radius) ==
  <<position[1], position[2], position[3],
    radius * Max(scale[1], Max(scale[2], scale[3]))>>

\* a matrix whose translation is applied before the scale, and so scaled
transformOf_scaledTranslation(position, rotation, scale) ==
  multTranslationPre(position[1] * scale[1], position[2] * scale[2],
                     position[3] * scale[3],
    multScalePost(toRotationMatrix4(rotation), scale[1], scale[2], scale[3]))

\* the matrix updateTransform computes
transformOf(position, rotation, scale) ==
  multTranslationPre(position[1], position[2], position[3],
    multScalePost(toRotationMatrix4(rotation), scale[1], scale[2], scale[3]))

\* both caches of e are the ones derived from the state e holds
Fresh(S, e) ==
  /\ S.boundingSphere_[e] =
       sphereOf(S.position_[e], S.scale_[e], S.boundingRadius_[e])
  /\ S.transform_[e] =
       transformOf(S.position_[e], S.rotation_[e], S.scale_[e])

Callbacks ==
  [kind : {"observe", "read", "readTransform", "invalidate"},
   value : {Vec3Zero}]
    \cup [kind : {"set"}, value : Positions]

Observe == [kind |-> "observe", value |-> Vec3Zero]

\* the hooks a call on e can run into: one of Callbacks when e is dirty
\* and its parent has the hook, and no hook runs otherwise
CallbacksOf(e) ==
  IF transformDirty_[e] /\ getParent(e) # null
     /\ hasChildTransformed(getParent(e))
  THEN Callbacks
  ELSE {Observe}

RECURSIVE updateTransform(_, _, _)
RECURSIVE childTransformed(_, _, _, _)
RECURSIVE getBoundingSphere(_, _, _)
RECURSIVE getTransform(_, _, _)

\* the record of something a call did to e, with the flag of e at that
\* moment: "recompute" (both caches written, line 122), "childTransformed"
\* (the hook of the parent `to` called, line 128) or, after it, what the
\* hook did to e ("read", "readTransform", "set", "invalidate")
Event(S, ev, e, to) ==
  [ev |-> ev, e |-> e, to |-> to, dirty |-> S.transformDirty_[e]]

Record(S, ev, e, to) ==
  [S EXCEPT !.events = Append(@, Event(S, ev, e, to))]

\* parent.childTransformed(child): the parent's hook.  It is recorded, and
\* then does what cbs says (the first element for this call, the rest for
\* the calls nested in it), which is recorded when done.
childTransformed(S, parent, child, cbs) ==
  LET cb == IF cbs = <<>> THEN Observe ELSE Head(cbs)
      rest == IF cbs = <<>> THEN <<>> ELSE Tail(cbs)
      S1 == Record(S, "childTransformed", child, parent)
  IN  CASE cb.kind = "observe" -> S1
        [] cb.kind = "read" ->
             Record(getBoundingSphere(S1, child, rest),
                    "read", child, parent)
        [] cb.kind = "readTransform" ->
             Record(getTransform(S1, child, rest),
                    "readTransform", child, parent)
        [] cb.kind = "set" ->
             Record(setPosition(S1, child, cb.value), "set", child, parent)
        [] cb.kind = "invalidate" ->
             Record(invalidateTransform(S1, child),
                    "invalidate", child, parent)

\* a recomputation that also marks the position ordinal dirty
recompute_marksDirty(S, e) ==
  LET S1 == setVariableDirty([S EXCEPT !.transformDirty_[e] = FALSE],
                             e, positionOrdinal_)
      position == getPosition(S1, e)
      rotation == getRotation(S1, e)
      scale == getScale(S1, e)
  IN  [S1 EXCEPT
         !.boundingSphere_[e] =
            sphereOf(position, scale, getBoundingRadius(S1, e)),
         !.transform_[e] = transformOf(position, rotation, scale)]

\* lines 102-122: the flag is cleared and both caches are written
recompute(S, e) ==
  LET S1 == [S EXCEPT !.transformDirty_[e] = FALSE]
      position == getPosition(S1, e)
      rotation == getRotation(S1, e)
      scale == getScale(S1, e)
  IN  [S1 EXCEPT
         !.boundingSphere_[e] =
            sphereOf(position, scale, getBoundingRadius(S1, e)),
         !.transform_[e] = transformOf(position, rotation, scale)]

\* updateTransform that clears the flag last, after the hook has run
updateTransform_clearLast(S, e, cbs) ==
  IF ~S.transformDirty_[e]
  THEN S
  ELSE LET S4 == Record([recompute(S, e) EXCEPT !.transformDirty_[e] = TRUE],
                        "recompute", e, null)
           parent == getParent(e)
           S5 == IF parent # null /\ hasChildTransformed(parent)
                 THEN childTransformed(S4, parent, e, cbs)
                 ELSE S4
       IN  [S5 EXCEPT !.transformDirty_[e] = FALSE]

\* updateTransform that calls the hook before it recomputes
updateTransform_notifyFirst(S, e, cbs) ==
  IF ~S.transformDirty_[e]
  THEN S
  ELSE LET parent == getParent(e)
           S0 == IF parent # null /\ hasChildTransformed(parent)
                 THEN childTransformed(S, parent, e, <<>>)
                 ELSE S
       IN  Record(recompute(S0, e), "recompute", e, null)

\* updateTransform without the early return of lines 99-101
updateTransform_always(S, e, cbs) ==
  LET S4 == Record(recompute(S, e), "recompute", e, null)
      parent == getParent(e)
  IN  IF parent # null /\ hasChildTransformed(parent)
      THEN childTransformed(S4, parent, e, cbs)
      ELSE S4

updateTransform(S, e, cbs) ==
  IF ~S.transformDirty_[e]
  THEN S
  ELSE LET S4 == Record(recompute(S, e), "recompute", e, null)
           parent == getParent(e)
       IN  IF parent # null /\ hasChildTransformed(parent)
           THEN childTransformed(S4, parent, e, cbs)
           ELSE S4

\* the state getBoundingSphere leaves; it returns boundingSphere_[e] of it
getBoundingSphere(S, e, cbs) ==
  IF S.transformDirty_[e] THEN updateTransform(S, e, cbs) ELSE S

\* getTransform that copies the cached matrix without updating it
getTransform_noUpdate(S, e, cbs) == S

\* the state getTransform leaves (lines 158-160; the rest of it writes
\* result only)
getTransform(S, e, cbs) ==
  IF S.transformDirty_[e] THEN updateTransform(S, e, cbs) ELSE S

-----------------------------------------------------------------------------
(* Construction: both constructors (lines 47-74 and 189-248).              *)

\* the entities after construction
InitEntities ==
  /\ position_ = [e \in SpatialEntities |-> Vec3Zero]
  /\ rotation_ = [e \in SpatialEntities |-> QuatZero]
  /\ scale_ = [e \in SpatialEntities |-> Vec3Zero]
  /\ boundingRadius_ = [e \in SpatialEntities |-> 0]
  /\ dirtyBits = [e \in SpatialEntities |-> {}]
  /\ transformDirty_ = [e \in SpatialEntities |-> TRUE]
  /\ boundingSphere_ = [e \in SpatialEntities |-> Vec4Zero]
  /\ transform_ = [e \in SpatialEntities |-> Mat4Zero]
  /\ events = <<>>
  /\ pc = "idle"
  /\ self = null
  /\ untilParent = null
  /\ current = null
  /\ result = <<>>
  /\ walkIter = 0
  /\ last = [op |-> "new", e |-> null, arg |-> <<>>, ret |-> <<>>]

\* the entities, of a class whose variables were declared into an empty list
\* by a base class that has none
Init ==
  /\ InitEntities
  /\ variableList = declareVariables(<<>>, <<>>)

frame == <<pc, self, untilParent, current, result, walkIter>>

\* a call that runs to its end in one step
Call(op, e, arg, ret, S) ==
  /\ pc = "idle"
  /\ \E T \in Once(S) : Install(T)
  /\ last' = [op |-> op, e |-> e, arg |-> arg, ret |-> ret]
  /\ UNCHANGED <<frame, variableList>>

-----------------------------------------------------------------------------
(* The calls.                                                              *)

SetPosition(e, value) ==
  \E S \in Once(Begin) :
    Call("setPosition", e, value, <<>>, setPosition(S, e, value))

SetRotation(e, value) ==
  \E S \in Once(Begin) :
    Call("setRotation", e, value, <<>>, setRotation(S, e, value))

SetScale(e, value) ==
  \E S \in Once(Begin) :
    Call("setScale", e, value, <<>>, setScale(S, e, value))

SetBoundingRadius(e, value) ==
  \E S \in Once(Begin) :
    Call("setBoundingRadius", e, <<value>>, <<>>,
         setBoundingRadius(S, e, value))

InvalidateTransform(e) ==
  \E S \in Once(Begin) :
    Call("invalidateTransform", e, <<>>, <<>>, invalidateTransform(S, e))

PostNetworkUpdate(e) ==
  \E S \in Once(Begin) :
    Call("postNetworkUpdate", e, <<>>, <<>>, postNetworkUpdate(S, e))

UpdateTransform(e, cb) ==
  \E S \in Once(Begin) :
    Call("updateTransform", e, <<>>, <<>>, updateTransform(S, e, <<cb>>))

GetBoundingSphere(e, cb) ==
  \E S \in Once(Begin) :
    \E T \in Once(getBoundingSphere(S, e, <<cb>>)) :
      Call("getBoundingSphere", e, <<>>, T.boundingSphere_[e], T)

\* the walk always made up to the root
untilParentOf_root(opt) == null

\* var untilParent = opt_relativeToParent || null (line 168)
untilParentOf(opt) == opt

\* getTransform up to the loop (lines 156-169); opt is opt_relativeToParent,
\* null when omitted
GetTransformBegin(e, opt, cb) ==
  \E S \in Once(Begin) :
    \E T \in Once(getTransform(S, e, <<cb>>)) :
      /\ pc = "idle"
      /\ Install(T)
      /\ pc' = "walk"
      /\ self' = e
      /\ untilParent' = untilParentOf(opt)
      /\ result' = T.transform_[e]
      /\ current' = getParent(e)
      /\ walkIter' = 0
      /\ last' = [op |-> "getTransform", e |-> e, arg |-> <<opt>>,
                  ret |-> <<>>]
      /\ UNCHANGED variableList

\* the node the loop goes on with (line 175)
walkNext(this, cur) == getParent(this)

\* one iteration of the loop (lines 170-176)
GetTransformLoop ==
  /\ pc = "walk"
  /\ current # untilParent
  /\ walkIter < MaxWalk
  /\ result' = IF instanceofSpatialEntity(current)
               THEN multMat(transform_[current], result)
               ELSE result
  /\ current' = walkNext(self, current)
  /\ walkIter' = walkIter + 1
  /\ UNCHANGED <<position_, rotation_, scale_, boundingRadius_, dirtyBits,
                 transformDirty_, boundingSphere_, transform_, events,
                 pc, self, untilParent, variableList, last>>

\* the loop ends and getTransform returns result (line 177)
GetTransformReturn ==
  /\ pc = "walk"
  /\ current = untilParent
  /\ pc' = "idle"
  /\ last' = [last EXCEPT !.ret = result]
  /\ self' = null
  /\ untilParent' = null
  /\ current' = null
  /\ result' = <<>>
  /\ walkIter' = 0
  /\ UNCHANGED <<position_, rotation_, scale_, boundingRadius_, dirtyBits,
                 transformDirty_, boundingSphere_, transform_, events,
                 variableList>>

-----------------------------------------------------------------------------
(* Spec: every call on the entity B (child of A, which is notified), with  *)
(* all the argument values.                                                *)

Next ==
  \/ \E v \in Positions : SetPosition("B", v)
  \/ \E v \in Rotations : SetRotation("B", v)
  \/ \E v \in Scales : SetScale("B", v)
  \/ \E v \in Radii : SetBoundingRadius("B", v)
  \/ InvalidateTransform("B")
  \/ PostNetworkUpdate("B")
  \/ \E cb \in CallbacksOf("B") : UpdateTransform("B", cb)
  \/ \E cb \in CallbacksOf("B") : GetBoundingSphere("B", cb)
  \/ \E opt \in {null} \cup Ancestors("B"), cb \in CallbacksOf("B") :
       GetTransformBegin("B", opt, cb)
  \/ GetTransformLoop
  \/ GetTransformReturn

Spec == Init /\ [][Next]_vars

-----------------------------------------------------------------------------
(* TreeSpec: the calls that build and read transforms, on every entity of  *)
(* the scene, with one value to set for each field.                        *)

TreePosition == <<5, 0, 0>>

TreeScale == <<2, 1, 1>>

TreeNext ==
  \/ \E e \in SpatialEntities : SetPosition(e, TreePosition)
  \/ \E e \in {"A", "B"} : SetScale(e, TreeScale)
  \/ \E e \in SpatialEntities : UpdateTransform(e, Observe)
  \/ \E e \in SpatialEntities : \E opt \in {null} \cup Ancestors(e) :
       GetTransformBegin(e, opt, Observe)
  \/ GetTransformLoop
  \/ GetTransformReturn

TreeSpec == Init /\ [][TreeNext]_vars

-----------------------------------------------------------------------------
(* NotifySpec: invalidation and recomputation of every entity of the       *)
(* scene: B, whose parent A has the hook, A, which has no parent, and C,   *)
(* whose parent P has no hook.                                             *)

NotifyNext ==
  \/ \E e \in SpatialEntities : \E v \in Positions : SetPosition(e, v)
  \/ \E e \in SpatialEntities : InvalidateTransform(e)
  \/ \E e \in SpatialEntities : PostNetworkUpdate(e)
  \/ \E e \in SpatialEntities : \E cb \in CallbacksOf(e) :
       UpdateTransform(e, cb)
  \/ \E e \in SpatialEntities : \E cb \in CallbacksOf(e) :
       GetBoundingSphere(e, cb)

NotifySpec == Init /\ [][NotifyNext]_vars

-----------------------------------------------------------------------------
(* DeclSpec: declareVariables applied once to every list of VariableLists, *)
(* with every list of VariableLists as what the base declaration adds.     *)

DeclInit ==
  /\ InitEntities
  /\ variableList \in VariableLists

DeclareVariables(base) ==
  /\ last.op = "new"
  /\ variableList' = declareVariables(variableList, base)
  /\ last' = [op |-> "declareVariables", e |-> null,
              arg |-> <<variableList, base>>, ret |-> <<>>]
  /\ UNCHANGED <<position_, rotation_, scale_, boundingRadius_, dirtyBits,
                 transformDirty_, boundingSphere_, transform_, events,
                 frame>>

DeclNext == \E base \in VariableLists : DeclareVariables(base)

DeclSpec == DeclInit /\ [][DeclNext]_vars

-----------------------------------------------------------------------------
(* Properties.                                                             *)

SetterOps == {"setPosition", "setRotation", "setScale", "setBoundingRadius"}

ReadOps == {"updateTransform", "getBoundingSphere", "getTransform"}

\* the value the field of setter op holds, in the shape of the argument
Held(op, e) ==
  CASE op = "setPosition" -> position_[e]
    [] op = "setRotation" -> rotation_[e]
    [] op = "setScale" -> scale_[e]
    [] op = "setBoundingRadius" -> <<boundingRadius_[e]>>

OrdinalOf(op) ==
  CASE op = "setPosition" -> positionOrdinal_
    [] op = "setRotation" -> rotationOrdinal_
    [] op = "setScale" -> scaleOrdinal_
    [] op = "setBoundingRadius" -> boundingRadiusOrdinal_

\* everything but the record of the calls
replicated ==
  <<position_, rotation_, scale_, boundingRadius_, dirtyBits,
    transformDirty_, boundingSphere_, transform_>>

\* the largest component of a 3-vector
MaxAxis(v) == CHOOSE m \in {v[1], v[2], v[3]} : \A k \in 1 .. 3 : m >= v[k]

\* center = position, radius = boundingRadius * the largest scale axis
ExpectedSphere(e) ==
  <<position_[e][1], position_[e][2], position_[e][3],
    boundingRadius_[e] * MaxAxis(scale_[e])>>

\* C1: a setter called with the value its field holds changes nothing: no
\* ordinal is marked dirty and transformDirty_ is not set.
C1_IdempotentSetters ==
  [][(last'.op \in SetterOps /\ last'.arg = Held(last'.op, last'.e))
       => UNCHANGED replicated]_vars

\* C2: a setter called with a value that differs from the held one marks
\* the ordinal of its field and no other, and leaves transformDirty_ true.
C2_DirtyPropagation ==
  [][(last'.op \in SetterOps /\ last'.arg # Held(last'.op, last'.e))
       => /\ dirtyBits' =
               [dirtyBits EXCEPT ![last'.e] = @ \cup {OrdinalOf(last'.op)}]
          /\ transformDirty_'[last'.e]]_vars

\* C3: right after a setter returns, the field holds the argument.
C3_SetGetRoundTrip ==
  last.op \in SetterOps => Held(last.op, last.e) = last.arg

\* C4: whenever transformDirty_ is false, the cached matrix and sphere are
\* the ones derived from the position, rotation, scale and radius held.
C4_CacheValidity ==
  \A e \in SpatialEntities : ~transformDirty_[e] => Fresh(Cur, e)

C4_Witness ==
  /\ last.op \in ReadOps
  /\ last.e = "B"
  /\ ~transformDirty_["B"]
  /\ position_["B"] = <<5, 0, 0>>
  /\ rotation_["B"] = <<0, 0, 1, 0>>
  /\ scale_["B"] = <<1, 3, 2>>
  /\ boundingRadius_["B"] = 2
  /\ dirtyBits["B"] = Ordinals

\* C5: every updateTransform call leaves a cached sphere whose center is
\* the position and whose radius is boundingRadius times the largest of the
\* three scale components, of the state the call was made in.
C5_CacheCorrectness ==
  [][last'.op = "updateTransform"
       => boundingSphere_'[last'.e] = ExpectedSphere(last'.e)]_vars

C5_Witness ==
  /\ last.op = "updateTransform"
  /\ last.e = "B"
  /\ ~transformDirty_["B"]
  /\ position_["B"] = <<5, 0, 0>>
  /\ scale_["B"] = <<1, 3, 2>>
  /\ boundingRadius_["B"] = 2
  /\ boundingSphere_["B"] = <<5, 0, 0, 6>>

\* C6: B.getTransform(result), with no relative parent and B's parent A
\* the root, goes once round the loop and returns Ta * Tb.
C6_HierarchyComposition ==
  (last.op = "getTransform" /\ last.e = "B" /\ last.arg = <<null>>)
    => IF pc = "walk"
       THEN walkIter <= Cardinality(Ancestors("B"))
       ELSE last.ret = multMat(transform_["A"], transform_["B"])

\* C7: every step of the loop of getTransform moves current to the parent
\* of current, so the walk never reads the same node twice and ends.
C7_WalkAdvances ==
  [][(pc = "walk" /\ pc' = "walk") => current' = getParent(current)]_vars

\* C8: getTransform(result, parent), called on an entity with its own
\* parent as opt_relativeToParent, never enters the loop and returns the
\* entity's local transform alone.
C8_RelativeTransform ==
  (last.op = "getTransform" /\ getParent(last.e) # null
   /\ last.arg = <<getParent(last.e)>>)
    => IF pc = "walk"
       THEN walkIter = 0 /\ current = untilParent
       ELSE /\ last.ret = transform_[last.e]
            /\ last.ret = transformOf(position_[last.e], rotation_[last.e],
                                      scale_[last.e])

C8_Witness ==
  /\ pc = "idle"
  /\ last.op = "getTransform"
  /\ last.e = "B"
  /\ last.arg = <<"A">>
  /\ position_["B"] = TreePosition
  /\ scale_["B"] = TreeScale
  /\ ~transformDirty_["A"]
  /\ position_["A"] = TreePosition
  /\ last.ret = transform_["B"]
  /\ last.ret # multMat(transform_["A"], transform_["B"])

\* C9: updateTransform called on a Clean entity changes neither the caches
\* nor the flag nor the state, and calls no childTransformed.
C9_LazyRecomputation ==
  [][(last'.op = "updateTransform" /\ ~transformDirty_[last'.e])
       => UNCHANGED replicated /\ events' = <<>>]_vars

\* B's parent has the hook, so a call on B that made no notification
\* started Clean
C9_Witness ==
  /\ last.op = "updateTransform"
  /\ last.e = "B"
  /\ events = <<>>
  /\ ~transformDirty_["B"]
  /\ boundingSphere_["B"] = <<5, 0, 0, 6>>

\* C10: postNetworkUpdate leaves the entity Dirty whatever its state was,
\* and the next updateTransform, getBoundingSphere or getTransform on it
\* recomputes both caches from the state.
C10_NetworkOverride ==
  [][/\ last'.op = "postNetworkUpdate" => transformDirty_'[last'.e]
     /\ (last.op = "postNetworkUpdate" /\ last'.op \in ReadOps
         /\ last'.e = last.e)
          => /\ events' # <<>>
             /\ events'[1] = [ev |-> "recompute", e |-> last.e,
                              to |-> null, dirty |-> FALSE]
             /\ boundingSphere_'[last.e] = ExpectedSphere(last.e)
             /\ transform_'[last.e] =
                  transformOf(position_[last.e], rotation_[last.e],
                              scale_[last.e])]_vars

\* the hook called on an entity that was Clean, its caches computed from
\* the state it still holds
C10_Witness ==
  /\ last.op = "postNetworkUpdate"
  /\ last.e = "B"
  /\ transformDirty_["B"]
  /\ Fresh(Cur, "B")
  /\ boundingSphere_["B"] = <<5, 0, 0, 6>>

\* C11: a state whose scale was never set holds the scale (1,1,1), so a
\* getBoundingSphere on an entity on which only setBoundingRadius was
\* called returns the radius the state holds.
C11_DefaultScale ==
  /\ \A e \in SpatialEntities :
       scaleOrdinal_ \notin dirtyBits[e] => scale_[e] = <<1, 1, 1>>
  /\ (last.op = "getBoundingSphere"
      /\ dirtyBits[last.e] \subseteq {boundingRadiusOrdinal_})
       => last.ret[4] = boundingRadius_[last.e]

\* the tags of the descriptors of list l, in order
TagsOf(l) == [i \in 1..Len(l) |-> l[i].tag]

\* C12: after declareVariables the list is the list it was given, unchanged
\* and in the same order, then the descriptors of the base declaration, then
\* exactly four descriptors: position, rotation, scale, boundingRadius.
C12_RegistrationOrder ==
  last.op = "declareVariables" =>
    LET before == last.arg[1]
        base == last.arg[2]
        n == Len(before)
        b == Len(base)
    IN  /\ Len(variableList) = n + b + 4
        /\ SubSeq(variableList, 1, n) = before
        /\ SubSeq(variableList, n + 1, n + b) = base
        /\ TagsOf(SubSeq(variableList, n + b + 1, n + b + 4)) =
             <<"position", "rotation", "scale", "boundingRadius">>
        /\ variableList[n + b + 1].type = "Vec3"
        /\ variableList[n + b + 2].type = "Quaternion"
        /\ variableList[n + b + 2].normalized
        /\ variableList[n + b + 3].type = "Vec3"
        /\ variableList[n + b + 4].type = "Float"

C12_Witness ==
  /\ last.op = "declareVariables"
  /\ Len(last.arg[1]) = MaxList
  /\ Len(last.arg[2]) = MaxList
  /\ Len(variableList) = 2 * MaxList + 4

\* the matrix of the translation by v
Translate(v) ==
  <<1, 0, 0, 0,  0, 1, 0, 0,  0, 0, 1, 0,  v[1], v[2], v[3], 1>>

\* the matrix of the scale by v
Scale(v) ==
  <<v[1], 0, 0, 0,  0, v[2], 0, 0,  0, 0, v[3], 0,  0, 0, 0, 1>>

\* the image of the point p under the matrix m
TransformPoint(m, p) ==
  <<m[1] * p[1] + m[5] * p[2] + m[9] * p[3] + m[13],
    m[2] * p[1] + m[6] * p[2] + m[10] * p[3] + m[14],
    m[3] * p[1] + m[7] * p[2] + m[11] * p[3] + m[15]>>

\* C13: the cached matrix of a clean entity is
\* Translate(position) . Rotation(rotation) . Scale(scale); with scale
\* (2,1,1), identity rotation and position (5,0,0) it maps the local origin
\* to (5,0,0) and the local point (1,0,0) to (7,0,0).
C13_CompositionOrder ==
  \A e \in SpatialEntities :
    ~transformDirty_[e] =>
      /\ transform_[e] =
           multMat(Translate(position_[e]),
                   multMat(toRotationMatrix4(rotation_[e]),
                           Scale(scale_[e])))
      /\ (/\ scale_[e] = <<2, 1, 1>>
          /\ rotation_[e] = <<0, 0, 0, 1>>
          /\ position_[e] = <<5, 0, 0>>)
           => /\ TransformPoint(transform_[e], <<0, 0, 0>>) = <<5, 0, 0>>
              /\ TransformPoint(transform_[e], <<1, 0, 0>>) = <<7, 0, 0>>

C13_Witness ==
  /\ last.op = "updateTransform"
  /\ last.e = "B"
  /\ ~transformDirty_["B"]
  /\ scale_["B"] = <<2, 1, 1>>
  /\ rotation_["B"] = <<0, 0, 0, 1>>
  /\ position_["B"] = <<5, 0, 0>>
  /\ TransformPoint(transform_["B"], <<1, 0, 0>>) = <<7, 0, 0>>

\* e was recomputed by the call that made events
Recomputed(evs, e) ==
  \E i \in 1..Len(evs) : evs[i].ev = "recompute" /\ evs[i].e = e

\* C14: every entity is dirty after construction, and a step that takes the
\* flag of an entity from TRUE to FALSE is a call of updateTransform,
\* getBoundingSphere or getTransform on that entity that recomputed it;
\* a setter, invalidateTransform or postNetworkUpdate never does.
C14_StateMachine ==
  /\ \A e \in SpatialEntities : transformDirty_[e]
  /\ [][\A e \in SpatialEntities :
          (transformDirty_[e] /\ ~transformDirty_'[e]) =>
            /\ last'.op \in ReadOps
            /\ last'.e = e
            /\ Recomputed(events', e)]_vars

C14_Witness ==
  /\ last.op = "getBoundingSphere"
  /\ last.e = "B"
  /\ Recomputed(events, "B")
  /\ ~transformDirty_["B"]

\* the matrix the state of e gives
ExpectedTransform(e) ==
  multMat(Translate(position_[e]),
          multMat(toRotationMatrix4(rotation_[e]), Scale(scale_[e])))

\* the positions in evs of the events ev about e
EventsOf(evs, ev, e) ==
  {i \in 1..Len(evs) : evs[i].ev = ev /\ evs[i].e = e}

\* C15: an updateTransform call on a dirty entity whose parent has
\* childTransformed calls it exactly once, with this entity, after the
\* recomputation and with the entity clean; without a parent, or with a
\* parent that has no childTransformed, the call recomputes, notifies
\* nobody and returns with the entity clean.
C15_ParentNotification ==
  [][(last'.op = "updateTransform" /\ transformDirty_[last'.e]) =>
       LET e == last'.e
           parent == getParent(e)
           calls == EventsOf(events', "childTransformed", e)
       IN  /\ Len(events') >= 1
           /\ events'[1] = [ev |-> "recompute", e |-> e, to |-> null,
                            dirty |-> FALSE]
           /\ boundingSphere_'[e] = ExpectedSphere(e)
           /\ transform_'[e] = ExpectedTransform(e)
           /\ IF parent # null /\ hasChildTransformed(parent)
              THEN /\ calls = {2}
                   /\ events'[2] = [ev |-> "childTransformed", e |-> e,
                                    to |-> parent, dirty |-> FALSE]
              ELSE /\ events' = <<events'[1]>>
                   /\ ~transformDirty_'[e]]_vars

C15_Witness ==
  /\ last.op = "updateTransform"
  /\ last.e = "B"
  /\ Len(events) = 2
  /\ events[2] = [ev |-> "childTransformed", e |-> "B", to |-> "A",
                  dirty |-> FALSE]

\* the other case of C15: an entity without a notified parent was recomputed
C15_WitnessNoHook ==
  /\ last.op = "updateTransform"
  /\ last.e = "C"
  /\ events = <<[ev |-> "recompute", e |-> "C", to |-> null,
                 dirty |-> FALSE]>>

\* C16: getTransform(result) on an entity without a parent, with no
\* relative parent given, makes no iteration of the walk and returns the
\* entity's cached matrix, which is the one its state gives.
C16_NoParent ==
  (/\ last.op = "getTransform"
   /\ getParent(last.e) = null
   /\ last.arg = <<null>>)
    => IF pc = "walk"
       THEN /\ walkIter = 0
            /\ current = untilParent
            /\ result = ExpectedTransform(last.e)
       ELSE /\ last.ret = transform_[last.e]
            /\ last.ret = ExpectedTransform(last.e)
            /\ ~transformDirty_[last.e]

C16_Witness ==
  /\ last.op = "getTransform"
  /\ last.e = "A"
  /\ pc = "idle"
  /\ position_["A"] = TreePosition
  /\ scale_["A"] = TreeScale
  /\ last.ret = transform_["A"]

\* C17: in getTransform(result) on C, whose parent P is not spatial and
\* whose grandparent is the spatial root A, the walk visits P, then A, then
\* ends; P contributes no matrix, and the call returns Ta . Tc.
C17_NonSpatialAncestors ==
  (/\ last.op = "getTransform"
   /\ last.e = "C"
   /\ last.arg = <<null>>)
    => IF pc = "walk"
       THEN /\ walkIter <= 2
            /\ (walkIter = 0 => current = "P" /\ result = transform_["C"])
            /\ (walkIter = 1 => current = "A" /\ result = transform_["C"])
            /\ (walkIter = 2 =>
                  /\ current = null
                  /\ result = multMat(transform_["A"], transform_["C"]))
       ELSE last.ret = multMat(transform_["A"], transform_["C"])

\* C18: whenever an iteration of the walk multiplies the matrix of a spatial
\* ancestor into the result, that ancestor is clean and its matrix is the one
\* its position, rotation and scale give.
C18_AncestorFreshness ==
  [][(/\ pc = "walk"
      /\ walkIter' = walkIter + 1
      /\ instanceofSpatialEntity(current))
       => /\ ~transformDirty_[current]
          /\ transform_[current] = ExpectedTransform(current)]_vars

C19_WitnessRead ==
  /\ last.op = "updateTransform"
  /\ last.e = "B"
  /\ Len(events) = 3
  /\ events[3] = [ev |-> "readTransform", e |-> "B", to |-> "A",
                  dirty |-> FALSE]
  /\ ~transformDirty_["B"]

\* the fields of the replicated state and the set of dirty ordinals
stateFields == <<position_, rotation_, scale_, boundingRadius_, dirtyBits>>

\* the calls that are not setters
NonSetterOps == ReadOps \cup {"invalidateTransform", "postNetworkUpdate"}

\* C20: updateTransform, getBoundingSphere, getTransform (every step of it),
\* invalidateTransform and postNetworkUpdate leave position, rotation,
\* scale, boundingRadius and the dirty ordinals as they were, unless the
\* parent's hook called a setter during the call, and then only what that
\* setter sets changes; a step that changes any of them is a setter call,
\* made directly or by the hook.
C20_ReadsDoNotReplicate ==
  [][LET hookSet == pc = "idle" /\ last'.op \in ReadOps
                    /\ EventsOf(events', "set", last'.e) # {}
     IN  /\ (last'.op \in NonSetterOps /\ ~hookSet) => UNCHANGED stateFields
         /\ ~(UNCHANGED stateFields) => (last'.op \in SetterOps \/ hookSet)
         /\ hookSet =>
              /\ UNCHANGED <<rotation_, scale_, boundingRadius_>>
              /\ dirtyBits'[last'.e] \in
                   {dirtyBits[last'.e],
                    dirtyBits[last'.e] \cup {positionOrdinal_}}
         /\ \A e \in SpatialEntities \ {last'.e} :
              /\ position_'[e] = position_[e]
              /\ dirtyBits'[e] = dirtyBits[e]]_vars

C20_Witness ==
  /\ last.op = "getBoundingSphere"
  /\ last.e = "B"
  /\ Recomputed(events, "B")
  /\ EventsOf(events, "set", "B") = {}
  /\ dirtyBits["B"] = {scaleOrdinal_}
  /\ position_["B"] = Vec3Zero

====
